---- MODULE Spec2Model ----
(***************************************************************************)
(* Model of the arrform crate (src/src/lib.rs): ArrForm<BUF_SIZE>, a fixed *)
(* byte buffer with a cursor `used`, its fmt::Write sink write_str, the    *)
(* format() pass that resets the cursor and drives core::fmt::write over   *)
(* the sink, the read views as_bytes()/as_str(), and the arrform! macro.   *)
(*                                                                         *)
(* A str is modelled as the sequence of its code points; s.as_bytes() is   *)
(* its UTF-8 encoding.  Sequences are 1-based, so the Rust slice           *)
(* buffer[a..b] is SubSeq(buffer, a+1, b).                                 *)
(***************************************************************************)
EXTENDS Integers, Sequences, FiniteSets, TLC

(* ------------------------------ bounds --------------------------------- *)

\* largest capacity BUF_SIZE explored (0 is included)
MaxN == 3
\* largest number of chars in one fragment handed to write_str
MaxFragLen == 2
\* largest number of write_str calls the formatting engine makes in one pass
MaxFrags == 2

(* ------------------------------ inputs --------------------------------- *)

\* code points a fragment is made of: 'a' (one byte in UTF-8) and
\* U+00E9 (two bytes, C3 A9)
Chars == {97, 233}

\* what the uninitialised array of new() may hold, byte by byte
UninitBytes == {0, 255}

RECURSIVE StrsOfLen(_)
StrsOfLen(n) ==
    IF n = 0 THEN {<<>>}
    ELSE {Append(s, c) : s \in StrsOfLen(n - 1), c \in Chars}

\* every str of at most n chars
StrsUpTo(n) == UNION {StrsOfLen(k) : k \in 0..n}

\* the fragments (&str) a caller or the formatting engine passes to write_str
Fragments == StrsUpTo(MaxFragLen)

(* --------------------------- str and bytes ----------------------------- *)

\* char::encode_utf8: the UTF-8 bytes of one code point
EncodeUtf8(c) ==
    IF c < 128 THEN <<c>>
    ELSE IF c < 2048 THEN <<192 + (c \div 64), 128 + (c % 64)>>
    ELSE IF c < 65536
         THEN <<224 + (c \div 4096), 128 + ((c \div 64) % 64), 128 + (c % 64)>>
    ELSE <<240 + (c \div 262144), 128 + ((c \div 4096) % 64),
           128 + ((c \div 64) % 64), 128 + (c % 64)>>

\* s.as_bytes(): the bytes of a str
RECURSIVE str_as_bytes(_)
str_as_bytes(s) ==
    IF s = <<>> THEN <<>>
    ELSE EncodeUtf8(Head(s)) \o str_as_bytes(Tail(s))

IsCont(b) == b >= 128 /\ b <= 191

\* number of bytes of the well-formed UTF-8 unit that starts bs, 0 if bs does
\* not start with a complete well-formed unit
UnitLen(bs) ==
    LET b0 == bs[1]
        n  == Len(bs)
    IN  IF b0 < 128 THEN 1
        ELSE IF b0 >= 194 /\ b0 <= 223
             THEN IF n >= 2 /\ IsCont(bs[2]) THEN 2 ELSE 0
        ELSE IF b0 >= 224 /\ b0 <= 239
             THEN IF /\ n >= 3
                     /\ IsCont(bs[2])
                     /\ IsCont(bs[3])
                     /\ (b0 = 224 => bs[2] >= 160)
                     /\ (b0 = 237 => bs[2] <= 159)
                  THEN 3 ELSE 0
        ELSE IF b0 >= 240 /\ b0 <= 244
             THEN IF /\ n >= 4
                     /\ IsCont(bs[2])
                     /\ IsCont(bs[3])
                     /\ IsCont(bs[4])
                     /\ (b0 = 240 => bs[2] >= 144)
                     /\ (b0 = 244 => bs[2] <= 143)
                  THEN 4 ELSE 0
        ELSE 0

\* the bytes are a sequence of complete, well-formed UTF-8 units
RECURSIVE IsValidUtf8(_)
IsValidUtf8(bs) ==
    IF bs = <<>> THEN TRUE
    ELSE LET k == UnitLen(bs)
         IN  k > 0 /\ IsValidUtf8(SubSeq(bs, k + 1, Len(bs)))

\* the code point of one well-formed unit of k bytes at the start of bs
DecodeUnit(bs, k) ==
    IF k = 1 THEN bs[1]
    ELSE IF k = 2 THEN (bs[1] - 192) * 64 + (bs[2] - 128)
    ELSE IF k = 3
         THEN (bs[1] - 224) * 4096 + (bs[2] - 128) * 64 + (bs[3] - 128)
    ELSE (bs[1] - 240) * 262144 + (bs[2] - 128) * 4096
         + (bs[3] - 128) * 64 + (bs[4] - 128)

\* the chars of well-formed UTF-8 bytes
RECURSIVE Utf8Decode(_)
Utf8Decode(bs) ==
    IF bs = <<>> THEN <<>>
    ELSE LET k == UnitLen(bs)
         IN  <<DecodeUnit(bs, k)>> \o Utf8Decode(SubSeq(bs, k + 1, Len(bs)))

\* from_utf8_unchecked(bytes): the str the bytes are, when they are valid
\* UTF-8; on anything else the call is undefined behaviour and the str it
\* yields is any str at all
from_utf8_unchecked(bs) ==
    IF IsValidUtf8(bs) THEN {Utf8Decode(bs)} ELSE StrsUpTo(Len(bs))

(* ------------------------------ slices --------------------------------- *)

\* &b[from..]
SliceFrom(b, from) == SubSeq(b, from + 1, Len(b))

\* &b[..to]
SliceTo(b, to) == SubSeq(b, 1, to)

\* slice indexing panics when the range is not inside the slice
SliceFromInBounds(b, from) == from <= Len(b)
SliceToInBounds(b, to) == to <= Len(b)

\* dst.copy_from_slice(src) panics unless both have the same length
CopyLenOk(dst, src) == Len(dst) = Len(src)

(* ---------------------------- the program ------------------------------ *)

VARIABLES
    N,          \* BUF_SIZE of the ArrForm under observation
    buffer,     \* its field buffer: [u8; BUF_SIZE]
    used,       \* its field used
    pc,         \* "idle": between calls; "writing": inside format(), in
                \* fmt::write; "panicked": the thread panicked
    driver,     \* the call that last touched the ArrForm:
                \* "new", "format", "macro" or "write_str"
    frags,      \* the fragments passed to write_str in the current (or last)
                \* format pass, in order
    rets,       \* what each of those write_str calls returned
    last,       \* the write_str call made by the last step, if it made one
    result,     \* what the last finished format() or direct write_str returned
    panicMsg,   \* the message of the panic, "" without one
    view,       \* what as_bytes() or as_str() returned, if the last step was
                \* one of them
    written,    \* the indices of buffer (1-based) that a copy_from_slice of
                \* write_str wrote since the ArrForm was created or last reset
    prevErr     \* the format() pass before the current one, on the same
                \* ArrForm, ended in an overflow

vars == <<N, buffer, used, pc, driver, frags, rets, last, result, panicMsg,
          view, written, prevErr>>

NoCall == [s |-> <<>>, ret |-> "none"]

\* ArrForm::new(): the array is left uninitialised, the cursor is 0
NewBuffers(n) == [1..n -> UninitBytes]

\* slip: the cursor of a new ArrForm is the capacity
New_FullCursor(n) == {[buffer |-> b, used |-> n] : b \in NewBuffers(n)}

\* slip: the cursor of a new ArrForm is left uninitialised like the array
New_UninitCursor(n) ==
    {[buffer |-> b, used |-> u] : b \in NewBuffers(n), u \in 0..n}

\* ArrForm::new(): ArrForm { buffer, used: 0 }
New(n) == {[buffer |-> b, used |-> 0] : b \in NewBuffers(n)}

NoView == [op |-> "none", bytes |-> <<>>]

\* slip: as_bytes() returns the whole array
as_bytes_WholeArray == buffer

\* self.buffer[..self.used] as as_bytes() returns it
as_bytes == SliceTo(buffer, used)

\* as_str(): the same bytes seen as a str
as_str == from_utf8_unchecked(SliceTo(buffer, used))

\* what a write_str call that panics leaves behind
WritePanic(buf, u, msg) ==
    [buffer |-> buf, used |-> u, ret |-> "none", panic |-> TRUE, msg |-> msg]

(* Variants of write_str, each with one slip, that the properties below are
   checked to tell apart from write_str itself. *)

\* slip: on overflow the cursor advances by the whole fragment
WriteStr_NoClamp(buf, u, s) ==
    IF ~SliceFromInBounds(buf, u)
    THEN WritePanic(buf, u, "range start index out of range")
    ELSE
    LET remaining_buf == SliceFrom(buf, u)
        raw_s == str_as_bytes(s)
    IN  IF Len(raw_s) > Len(remaining_buf)
        THEN [buffer |-> SliceTo(buf, u) \o SliceTo(raw_s, Len(remaining_buf)),
              used   |-> u + Len(raw_s),
              ret    |-> "Err", panic |-> FALSE, msg |-> ""]
        ELSE [buffer |-> SliceTo(buf, u) \o raw_s
                         \o SliceFrom(remaining_buf, Len(raw_s)),
              used   |-> u + Len(raw_s),
              ret    |-> "Ok", panic |-> FALSE, msg |-> ""]

\* slip: an oversized fragment is rejected whole, nothing is copied
WriteStr_Reject(buf, u, s) ==
    LET remaining_buf == SliceFrom(buf, u)
        raw_s == str_as_bytes(s)
    IN  IF Len(raw_s) > Len(remaining_buf)
        THEN [buffer |-> buf, used |-> u,
              ret    |-> "Err", panic |-> FALSE, msg |-> ""]
        ELSE [buffer |-> SliceTo(buf, u) \o raw_s
                         \o SliceFrom(remaining_buf, Len(raw_s)),
              used   |-> u + Len(raw_s),
              ret    |-> "Ok", panic |-> FALSE, msg |-> ""]

\* slip: `>=` for `>`, so a fragment that fits exactly is an overflow
WriteStr_Geq(buf, u, s) ==
    LET remaining_buf == SliceFrom(buf, u)
        raw_s == str_as_bytes(s)
    IN  IF Len(raw_s) >= Len(remaining_buf)
        THEN [buffer |-> SliceTo(buf, u) \o SliceTo(raw_s, Len(remaining_buf)),
              used   |-> u + Len(remaining_buf),
              ret    |-> "Err", panic |-> FALSE, msg |-> ""]
        ELSE [buffer |-> SliceTo(buf, u) \o raw_s
                         \o SliceFrom(remaining_buf, Len(raw_s)),
              used   |-> u + Len(raw_s),
              ret    |-> "Ok", panic |-> FALSE, msg |-> ""]

\* slip: a fitting fragment is copied to the start of the array instead of
\* to the start of the remaining part
WriteStr_AtStart(buf, u, s) ==
    LET remaining_buf == SliceFrom(buf, u)
        raw_s == str_as_bytes(s)
    IN  IF Len(raw_s) > Len(remaining_buf)
        THEN [buffer |-> SliceTo(buf, u) \o SliceTo(raw_s, Len(remaining_buf)),
              used   |-> u + Len(remaining_buf),
              ret    |-> "Err", panic |-> FALSE, msg |-> ""]
        ELSE [buffer |-> raw_s \o SliceFrom(buf, Len(raw_s)),
              used   |-> u + Len(raw_s),
              ret    |-> "Ok", panic |-> FALSE, msg |-> ""]

\* slip: on overflow the whole fragment is the source of copy_from_slice
WriteStr_CopyAll(buf, u, s) ==
    IF ~SliceFromInBounds(buf, u)
    THEN WritePanic(buf, u, "range start index out of range")
    ELSE
    LET remaining_buf == SliceFrom(buf, u)
        raw_s == str_as_bytes(s)
    IN  IF Len(raw_s) > Len(remaining_buf)
        THEN IF ~CopyLenOk(remaining_buf, raw_s)
             THEN WritePanic(buf, u, "copy_from_slice length mismatch")
             ELSE [buffer |-> SliceTo(buf, u) \o raw_s,
                   used   |-> u + Len(remaining_buf),
                   ret    |-> "Err", panic |-> FALSE, msg |-> ""]
        ELSE [buffer |-> SliceTo(buf, u) \o raw_s
                         \o SliceFrom(remaining_buf, Len(raw_s)),
              used   |-> u + Len(raw_s),
              ret    |-> "Ok", panic |-> FALSE, msg |-> ""]

\* slip: on overflow the bytes are copied but the cursor is not advanced
WriteStr_NoAdvance(buf, u, s) ==
    LET remaining_buf == SliceFrom(buf, u)
        raw_s == str_as_bytes(s)
    IN  IF Len(raw_s) > Len(remaining_buf)
        THEN [buffer |-> SliceTo(buf, u) \o SliceTo(raw_s, Len(remaining_buf)),
              used   |-> u,
              ret    |-> "Err", panic |-> FALSE, msg |-> ""]
        ELSE [buffer |-> SliceTo(buf, u) \o raw_s
                         \o SliceFrom(remaining_buf, Len(raw_s)),
              used   |-> u + Len(raw_s),
              ret    |-> "Ok", panic |-> FALSE, msg |-> ""]

\* slip: `self.used = raw_s.len()` for `self.used += raw_s.len()`
WriteStr_Assign(buf, u, s) ==
    LET remaining_buf == SliceFrom(buf, u)
        raw_s == str_as_bytes(s)
    IN  IF Len(raw_s) > Len(remaining_buf)
        THEN [buffer |-> SliceTo(buf, u) \o SliceTo(raw_s, Len(remaining_buf)),
              used   |-> u + Len(remaining_buf),
              ret    |-> "Err", panic |-> FALSE, msg |-> ""]
        ELSE [buffer |-> SliceTo(buf, u) \o raw_s
                         \o SliceFrom(remaining_buf, Len(raw_s)),
              used   |-> Len(raw_s),
              ret    |-> "Ok", panic |-> FALSE, msg |-> ""]

\* slip: a fitting fragment is copied and the rest of the array is zeroed
WriteStr_ClearRest(buf, u, s) ==
    LET remaining_buf == SliceFrom(buf, u)
        raw_s == str_as_bytes(s)
    IN  IF Len(raw_s) > Len(remaining_buf)
        THEN [buffer |-> SliceTo(buf, u) \o SliceTo(raw_s, Len(remaining_buf)),
              used   |-> u + Len(remaining_buf),
              ret    |-> "Err", panic |-> FALSE, msg |-> ""]
        ELSE [buffer |-> SliceTo(buf, u) \o raw_s
                         \o [i \in 1..(Len(remaining_buf) - Len(raw_s)) |-> 0],
              used   |-> u + Len(raw_s),
              ret    |-> "Ok", panic |-> FALSE, msg |-> ""]

\* slip: on a full buffer write_str returns early with Ok
WriteStr_FullOk(buf, u, s) ==
    LET remaining_buf == SliceFrom(buf, u)
        raw_s == str_as_bytes(s)
    IN  IF Len(remaining_buf) = 0
        THEN [buffer |-> buf, used |-> u,
              ret    |-> "Ok", panic |-> FALSE, msg |-> ""]
        ELSE IF Len(raw_s) > Len(remaining_buf)
        THEN [buffer |-> SliceTo(buf, u) \o SliceTo(raw_s, Len(remaining_buf)),
              used   |-> u + Len(remaining_buf),
              ret    |-> "Err", panic |-> FALSE, msg |-> ""]
        ELSE [buffer |-> SliceTo(buf, u) \o raw_s
                         \o SliceFrom(remaining_buf, Len(raw_s)),
              used   |-> u + Len(raw_s),
              ret    |-> "Ok", panic |-> FALSE, msg |-> ""]

\* fmt::Write::write_str(&mut self, s) on an ArrForm holding (buf, u)
WriteStr(buf, u, s) ==
    IF ~SliceFromInBounds(buf, u)
    THEN WritePanic(buf, u, "range start index out of range")
    ELSE
    LET remaining_buf == SliceFrom(buf, u)
        raw_s == str_as_bytes(s)
    IN  IF Len(raw_s) > Len(remaining_buf)
        THEN IF ~SliceToInBounds(raw_s, Len(remaining_buf))
             THEN WritePanic(buf, u, "range end index out of range")
             ELSE
             LET src == SliceTo(raw_s, Len(remaining_buf))
             IN  IF ~CopyLenOk(remaining_buf, src)
                 THEN WritePanic(buf, u, "copy_from_slice length mismatch")
                 ELSE [buffer |-> SliceTo(buf, u) \o src,
                       used   |-> u + Len(remaining_buf),
                       ret    |-> "Err",
                       panic  |-> FALSE,
                       msg    |-> ""]
        ELSE IF ~SliceToInBounds(remaining_buf, Len(raw_s))
             THEN WritePanic(buf, u, "range end index out of range")
             ELSE
             LET dst == SliceTo(remaining_buf, Len(raw_s))
             IN  IF ~CopyLenOk(dst, raw_s)
                 THEN WritePanic(buf, u, "copy_from_slice length mismatch")
                 ELSE [buffer |-> SliceTo(buf, u) \o raw_s
                                  \o SliceFrom(remaining_buf, Len(raw_s)),
                       used   |-> u + Len(raw_s),
                       ret    |-> "Ok",
                       panic  |-> FALSE,
                       msg    |-> ""]

\* the indices (1-based) of buf that the copy_from_slice of write_str(s)
\* has as its destination: all of remaining_buf on overflow,
\* remaining_buf[..raw_s.len()] otherwise
CopyDst(buf, u, s) ==
    LET raw_s == str_as_bytes(s)
    IN  IF Len(raw_s) > Len(buf) - u
        THEN (u + 1)..Len(buf)
        ELSE (u + 1)..(u + Len(raw_s))

\* slip: format() resets the cursor only while the buffer is not full
FormatReset_UnlessFull(u) == IF u = N THEN u ELSE 0

\* slip: format() without the reset of the cursor
FormatReset_Keep(u) == u

\* format(): `self.used = 0` before fmt::write runs
FormatReset(u) == 0

\* slip: the engine ignores the sink's error and goes on with the next piece
EngineStops_Never(ret) == FALSE

\* fmt::write propagates the sink's error with `?`: it stops at the first
\* write_str that returns Err and returns that error
EngineStops(ret) == ret = "Err"

\* slip: the result is dropped (`.ok()`) instead of expected
Expect_Ignore(res, msg) == [panicked |-> FALSE, msg |-> ""]

\* Result::expect(msg) of the arrform! macro: panics with msg on Err
Expect(res, msg) ==
    IF res = "Err" THEN [panicked |-> TRUE, msg |-> msg]
    ELSE [panicked |-> FALSE, msg |-> ""]

\* the caller's side of a finished format(): a direct caller gets the
\* result, the arrform! macro expects it
AfterFormat(d, res) ==
    IF d = "macro" THEN Expect(res, "Buffer overflow")
    ELSE [panicked |-> FALSE, msg |-> ""]

Init ==
    /\ N \in 0..MaxN
    /\ \E af \in New(N) :
         /\ buffer = af.buffer
         /\ used = af.used
    /\ view = NoView
    /\ written = {}
    /\ prevErr = FALSE
    /\ pc = "idle"
    /\ driver = "new"
    /\ frags = <<>>
    /\ rets = <<>>
    /\ last = NoCall
    /\ result = "none"
    /\ panicMsg = ""

\* af.format(args) is called: the cursor is reset and fmt::write starts
Format ==
    /\ pc = "idle"
    /\ used' = FormatReset(used)
    /\ pc' = "writing"
    /\ driver' = "format"
    /\ frags' = <<>>
    /\ rets' = <<>>
    /\ last' = NoCall
    /\ result' = "none"
    /\ view' = NoView
    /\ written' = {}
    /\ prevErr' = (Len(rets) > 0 /\ rets[Len(rets)] = "Err")
    /\ UNCHANGED <<N, buffer, panicMsg>>

\* arrform!(n, ...) is called: a new ArrForm<n>, then format() on it.  The
\* macro builds its own ArrForm and reads nothing of any other, so it is
\* started only from a program that has not used its ArrForm yet.
Arrform ==
    /\ pc = "idle"
    /\ driver = "new"
    /\ \E n \in 0..MaxN :
         /\ N' = n
         /\ \E af \in New(n) :
              /\ buffer' = af.buffer
              /\ used' = FormatReset(af.used)
    /\ pc' = "writing"
    /\ driver' = "macro"
    /\ frags' = <<>>
    /\ rets' = <<>>
    /\ last' = NoCall
    /\ result' = "none"
    /\ view' = NoView
    /\ written' = {}
    /\ prevErr' = FALSE
    /\ UNCHANGED panicMsg

\* fmt::write renders the next piece and passes it to write_str
EngineWrite ==
    /\ pc = "writing"
    /\ Len(frags) < MaxFrags
    /\ \E s \in Fragments :
         LET r == WriteStr(buffer, used, s)
             stop == EngineStops(r.ret)
             after == AfterFormat(driver, r.ret)
         IN  /\ buffer' = r.buffer
             /\ used' = r.used
             /\ frags' = Append(frags, s)
             /\ rets' = Append(rets, r.ret)
             /\ last' = [s |-> s, ret |-> r.ret]
             /\ IF r.panic
                THEN /\ pc' = "panicked"
                     /\ panicMsg' = r.msg
                     /\ result' = "none"
                ELSE IF stop
                THEN /\ pc' = IF after.panicked THEN "panicked" ELSE "idle"
                     /\ panicMsg' = after.msg
                     /\ result' = r.ret
                ELSE /\ pc' = "writing"
                     /\ UNCHANGED <<panicMsg, result>>
             /\ written' = IF r.panic THEN written
                           ELSE written \cup CopyDst(buffer, used, s)
    /\ view' = NoView
    /\ UNCHANGED <<N, driver, prevErr>>

\* fmt::write has no piece left: it returns Ok, and so does format()
EngineDone ==
    /\ pc = "writing"
    /\ LET after == AfterFormat(driver, "Ok")
       IN  /\ pc' = IF after.panicked THEN "panicked" ELSE "idle"
           /\ panicMsg' = after.msg
    /\ result' = "Ok"
    /\ last' = NoCall
    /\ view' = NoView
    /\ UNCHANGED <<N, buffer, used, driver, frags, rets, written, prevErr>>

\* the caller uses the sink directly: af.write_str(s), no format()
DirectWriteStr ==
    /\ pc = "idle"
    /\ \E s \in Fragments :
         LET r == WriteStr(buffer, used, s)
         IN  /\ buffer' = r.buffer
             /\ used' = r.used
             /\ last' = [s |-> s, ret |-> r.ret]
             /\ result' = r.ret
             /\ pc' = IF r.panic THEN "panicked" ELSE "idle"
             /\ panicMsg' = r.msg
             /\ written' = IF r.panic THEN written
                           ELSE written \cup CopyDst(buffer, used, s)
    /\ driver' = "write_str"
    /\ view' = NoView
    /\ UNCHANGED <<N, frags, rets, prevErr>>

\* the caller reads the result with af.as_bytes()
ReadBytes ==
    /\ pc = "idle"
    /\ view' = [op |-> "as_bytes", bytes |-> as_bytes]
    /\ last' = NoCall
    /\ UNCHANGED <<N, buffer, used, pc, driver, frags, rets, result, panicMsg,
                   written, prevErr>>

\* the caller reads the result with af.as_str(): from_utf8_unchecked hands
\* back the slice &self.buffer[..self.used] as a str, so the view holds those
\* bytes; the chars of that str are as_str
ReadStr ==
    /\ pc = "idle"
    /\ view' = [op |-> "as_str", bytes |-> SliceTo(buffer, used)]
    /\ last' = NoCall
    /\ UNCHANGED <<N, buffer, used, pc, driver, frags, rets, result, panicMsg,
                   written, prevErr>>

Next ==
    \/ Format
    \/ Arrform
    \/ EngineWrite
    \/ EngineDone
    \/ DirectWriteStr
    \/ ReadBytes
    \/ ReadStr

Spec == Init /\ [][Next]_vars

(* ------------------------------ helpers -------------------------------- *)

RECURSIVE ConcatBytes(_)
\* the bytes of the fragments of a pass, in order
ConcatBytes(fs) ==
    IF fs = <<>> THEN <<>>
    ELSE str_as_bytes(Head(fs)) \o ConcatBytes(Tail(fs))

RECURSIVE ConcatStrs(_)
\* the chars of the fragments of a pass, in order
ConcatStrs(fs) ==
    IF fs = <<>> THEN <<>>
    ELSE Head(fs) \o ConcatStrs(Tail(fs))

Min(a, b) == IF a <= b THEN a ELSE b

TypeOK ==
    /\ N \in 0..MaxN
    /\ Len(buffer) = N
    /\ used \in Nat
    /\ pc \in {"idle", "writing", "panicked"}
    /\ driver \in {"new", "format", "macro", "write_str"}
    /\ Len(frags) = Len(rets)
    /\ result \in {"none", "Ok", "Err"}

\* the calls that run a format() pass
PassDrivers == {"format", "macro"}

\* no write_str call of the pass returned Err
NoOverflow == \A i \in 1..Len(rets) : rets[i] = "Ok"

\* the bytes of the fragments of the pass
PassBytes == ConcatBytes(frags)

(* ------------------------------- claims -------------------------------- *)

\* C1 (capacity invariant): in every state reached from new() by format()
\* passes and write_str appends, whatever their cumulative size and also for
\* N = 0, the cursor satisfies 0 <= used <= N.
C1_CapacityInvariant == used >= 0 /\ used <= N

\* a pass whose fragments total more than N bytes has been appended and the
\* buffer is full
C1_Witness ==
    /\ driver = "format"
    /\ Len(frags) = 2
    /\ Len(PassBytes) > N
    /\ used = N
    /\ N > 0

\* C2 (overflow truncation): a write_str call with a fragment s longer than
\* remaining = N - used copies exactly the first `remaining` bytes of s to
\* buffer[used..N], sets used = N and returns Err; as_bytes() afterwards is
\* exactly N bytes, the bytes written before followed by that prefix of s.
C2_OverflowTruncation ==
    [][ (last' # NoCall /\ Len(str_as_bytes(last'.s)) > N - used) =>
          LET prefix == SliceTo(str_as_bytes(last'.s), N - used)
          IN  /\ last'.ret = "Err"
              /\ used' = N
              /\ buffer' = SliceTo(buffer, used) \o prefix
              /\ as_bytes' = as_bytes \o prefix
              /\ Len(as_bytes') = N ]_vars

\* a write_str overflowed after an earlier fragment was accepted, and a
\* non-empty proper prefix of it was copied
C2_Witness ==
    /\ driver = "format"
    /\ rets = <<"Ok", "Err">>
    /\ last = [s |-> frags[2], ret |-> "Err"]
    /\ Len(str_as_bytes(frags[1])) > 0
    /\ Len(str_as_bytes(frags[1])) < N
    /\ used = N
    /\ as_bytes = SliceTo(PassBytes, N)

\* C3 (exact fit): when the fragments appended after a reset total exactly N
\* bytes, every write_str call returned Ok, no overflow is signalled and
\* used = N: len(s) = remaining is a success.
C3_ExactFit ==
    (driver \in PassDrivers /\ Len(PassBytes) = N) =>
        /\ NoOverflow
        /\ used = N
        /\ result # "Err"
        /\ pc # "panicked"
        /\ (pc = "idle" => result = "Ok")

\* a finished pass of two non-empty fragments that fill the buffer exactly
C3_Witness ==
    /\ driver = "format"
    /\ pc = "idle"
    /\ Len(frags) = 2
    /\ frags[1] # <<>>
    /\ frags[2] # <<>>
    /\ Len(PassBytes) = N
    /\ result = "Ok"
    /\ used = N

\* C4 (round trip): after a pass in which no write_str overflowed, format()
\* has returned Ok, as_bytes() and as_str() are exactly the fragments of the
\* pass in order, and used is the sum of their lengths.
C4_RoundTrip ==
    (driver \in PassDrivers /\ pc # "writing" /\ NoOverflow) =>
        /\ pc = "idle"
        /\ result = "Ok"
        /\ used = Len(PassBytes)
        /\ as_bytes = PassBytes
        /\ as_str = {ConcatStrs(frags)}

\* a finished pass of two non-empty fragments, one with a two-byte char,
\* that did not overflow
C4_Witness ==
    /\ driver = "format"
    /\ pc = "idle"
    /\ result = "Ok"
    /\ Len(frags) = 2
    /\ frags[1] # <<>>
    /\ 233 \in {frags[2][i] : i \in 1..Len(frags[2])}
    /\ as_str = {ConcatStrs(frags)}

\* the same write_str calls made on an ArrForm just created with array b0
RECURSIVE FreshPass(_, _, _)
FreshPass(b0, u0, fs) ==
    IF fs = <<>> THEN [buffer |-> b0, used |-> u0, rets |-> <<>>]
    ELSE LET r == WriteStr(b0, u0, Head(fs))
             rest == FreshPass(r.buffer, r.used, Tail(fs))
         IN  [rest EXCEPT !.rets = <<r.ret>> \o rest.rets]

\* C5 (reuse independence): format() resets the cursor before any fragment
\* is appended, so whatever the history of the buffer the pass ends with the
\* write_str results, as_bytes() and as_str() that the same pass gives on a
\* buffer just created; nothing of an earlier pass is visible.
C5_ReuseIndependence ==
    (driver \in PassDrivers /\ pc # "writing") =>
        \A b0 \in NewBuffers(N) :
            LET f == FreshPass(b0, 0, frags)
            IN  /\ f.rets = rets
                /\ f.used = used
                /\ SliceTo(f.buffer, f.used) = as_bytes
                /\ from_utf8_unchecked(SliceTo(f.buffer, f.used)) = as_str

\* a pass that ended short of bytes an earlier, longer pass left in the array
C5_Witness ==
    /\ driver = "format"
    /\ pc = "idle"
    /\ result = "Ok"
    /\ used > 0
    /\ used < N
    /\ buffer[used + 1] \notin UninitBytes

\* C6 (text validity, I1): in every reachable state, also after a write_str
\* that overflowed and copied only a prefix of a fragment with multi-byte
\* chars, buffer[0..used] is a sequence of complete, well-formed UTF-8
\* units, so as_str() never exposes a truncated char.
C6_TextValidity == IsValidUtf8(as_bytes)

\* C7 (the macro is fatal on overflow): arrform!(N, ...) runs one pass on a
\* new buffer; it panics with "Buffer overflow" exactly when an append of
\* the pass reported overflow, and returns the buffer exactly when none did.
C7_MacroFatalOnOverflow ==
    (driver = "macro" /\ pc # "writing") =>
        /\ pc = "panicked" <=> ~NoOverflow
        /\ pc = "panicked" => panicMsg = "Buffer overflow"
        /\ pc = "idle" <=> NoOverflow
        /\ pc = "idle" => (result = "Ok" /\ panicMsg = "" /\ as_bytes = PassBytes)

\* the macro panicked on a pass whose second fragment did not fit
C7_Witness ==
    /\ driver = "macro"
    /\ pc = "panicked"
    /\ panicMsg = "Buffer overflow"
    /\ rets = <<"Ok", "Err">>
    /\ N > 0

C9_SinkNeverPanics ==
    /\ \A s \in Fragments :
          LET r == WriteStr(buffer, used, s)
          IN  ~r.panic /\ r.ret \in {"Ok", "Err"}
    /\ last # NoCall => last.ret \in {"Ok", "Err"}
    /\ pc = "panicked" => (driver = "macro" /\ panicMsg = "Buffer overflow")

\* write_str was called with a non-empty fragment on a full buffer
C9_Witness ==
    /\ driver = "write_str"
    /\ pc = "idle"
    /\ N > 0
    /\ used = N
    /\ last.s # <<>>
    /\ last.ret = "Err"
    /\ frags # <<>>
    /\ Len(PassBytes) = N

\* C10 (an overflowing pass keeps the leading N bytes): a pass whose
\* fragments total more than N bytes ends with format() returning Err,
\* used = N and as_bytes() the first N bytes of the fragments in order; a
\* pass returns Ok exactly when its fragments total at most N bytes.
C10_OverflowKeepsLeadingBytes ==
    (driver \in PassDrivers /\ pc # "writing") =>
        /\ Len(PassBytes) > N =>
              /\ result = "Err"
              /\ used = N
              /\ as_bytes = SliceTo(PassBytes, N)
        /\ result = "Ok" <=> Len(PassBytes) <= N

\* a pass overflowed in its second fragment, which starts inside the buffer
\* and ends two or more bytes past it
C10_Witness ==
    /\ driver = "format"
    /\ pc = "idle"
    /\ result = "Err"
    /\ Len(frags) = 2
    /\ frags[1] # <<>>
    /\ Len(str_as_bytes(frags[1])) < N
    /\ Len(PassBytes) >= N + 2
    /\ as_bytes = SliceTo(PassBytes, N)

\* C11 (creation): new() succeeds for every N, 0 included, with used = 0,
\* so as_bytes() and as_str() of an ArrForm never formatted or written are
\* empty; the capacity of an ArrForm never changes: the array always has N
\* bytes, and N differs only when the macro makes a new ArrForm.
C11_Creation ==
    /\ [](driver = "new" =>
            /\ pc = "idle"
            /\ used = 0
            /\ SubSeq(buffer, 1, used) = <<>>
            /\ as_str = {<<>>}
            /\ (view # NoView => view.bytes = <<>>))
    /\ [](Len(buffer) = N)
    /\ [][N' # N => (driver = "new" /\ driver' = "macro")]_vars

\* as_str() was called on a new ArrForm of the largest capacity
C11_Witness ==
    /\ driver = "new"
    /\ N = MaxN
    /\ view = [op |-> "as_str", bytes |-> <<>>]

\* C12 (cursor monotonicity): a write_str call never decreases used: it
\* ends with used + len(s) on success and with N on overflow, after the
\* content that was there; used decreases only in the reset at the start of
\* format(), which sets it to 0.
C12_CursorMonotone ==
    [][ /\ last' # NoCall =>
              /\ used' >= used
              /\ last'.ret = "Ok" => used' = used + Len(str_as_bytes(last'.s))
              /\ last'.ret = "Err" => used' = N
              /\ SubSeq(buffer', 1, used) = SubSeq(buffer, 1, used)
        /\ used' < used =>
              /\ used' = 0
              /\ pc = "idle"
              /\ pc' = "writing"
              /\ last' = NoCall ]_vars

\* a direct write_str, with no format() before it, was accepted after two
\* or more bytes of earlier content
C12_Witness ==
    /\ driver = "write_str"
    /\ last.ret = "Ok"
    /\ last.s # <<>>
    /\ used >= Len(str_as_bytes(last.s)) + 2
    /\ SubSeq(buffer, used - Len(str_as_bytes(last.s)) + 1, used)
         = str_as_bytes(last.s)

\* C13 (read views are pure): as_bytes() and as_str() leave buffer and used
\* (and everything else of the ArrForm) unchanged and both return exactly
\* the bytes buffer[0..used], so reads between appends change nothing that
\* later operations depend on.
C13_ReadsArePure ==
    [][ view' # NoView =>
          /\ UNCHANGED <<N, buffer, used, pc, panicMsg>>
          /\ view'.bytes = SubSeq(buffer, 1, used)
          /\ Len(view'.bytes) = used ]_vars

\* as_str() was called between appends, on a buffer partly filled by a pass
\* and a direct write_str
C13_Witness ==
    /\ view.op = "as_str"
    /\ driver = "write_str"
    /\ frags # <<>>
    /\ used > Len(PassBytes)
    /\ used < N
    /\ view.bytes = SubSeq(buffer, 1, used)

\* C14 (no stale or unwritten byte is readable): every index below used was
\* written by a write_str call made after the last reset (or after creation
\* if there was none) and holds no byte of the uninitialised array; what
\* as_bytes()/as_str() return stops at used.
C14_NoStaleByteReadable ==
    /\ \A i \in 1..used :
          /\ i \in written
          /\ buffer[i] \notin UninitBytes
    /\ view # NoView =>
          /\ Len(view.bytes) = used
          /\ \A i \in 1..Len(view.bytes) :
                i \in written /\ view.bytes[i] = buffer[i]

\* as_bytes() was called after a pass shorter than the one before it: a
\* stale byte sits right after the cursor and an uninitialised one after it
C14_Witness ==
    /\ view.op = "as_bytes"
    /\ driver = "format"
    /\ used > 0
    /\ used + 2 <= N
    /\ written = 1..used
    /\ buffer[used + 1] \notin UninitBytes
    /\ buffer[used + 2] \in UninitBytes

\* C15 (append frame): a write_str call, accepted or overflowing, leaves
\* every byte below the old used unchanged and writes only indices in
\* [old used, new used).
C15_AppendFrame ==
    [][ last' # NoCall =>
          /\ Len(buffer') = Len(buffer)
          /\ \A i \in 1..Len(buffer) :
                (i <= used \/ i > used') => buffer'[i] = buffer[i] ]_vars

\* the second fragment of a pass was accepted after the first, short of the
\* end of the array
C15_Witness ==
    /\ driver = "format"
    /\ rets = <<"Ok", "Ok">>
    /\ last = [s |-> frags[2], ret |-> "Ok"]
    /\ frags[1] # <<>>
    /\ frags[2] # <<>>
    /\ used < N
    /\ as_bytes = PassBytes

\* C16 (full buffer): with used = N every write_str of a non-empty fragment
\* returns Err and leaves buffer and used unchanged; a write_str of the
\* empty fragment returns Ok and changes nothing, in every state.
C16_FullBuffer ==
    /\ used = N =>
          \A s \in Fragments \ {<<>>} :
              LET r == WriteStr(buffer, used, s)
              IN  r.ret = "Err" /\ r.buffer = buffer /\ r.used = used
    /\ LET e == WriteStr(buffer, used, <<>>)
       IN  e.ret = "Ok" /\ e.buffer = buffer /\ e.used = used
    /\ (last # NoCall /\ last.s = <<>>) => last.ret = "Ok"

\* a direct write_str of a non-empty fragment returned Err on a buffer that
\* an overflowing pass had filled
C16_Witness ==
    /\ driver = "write_str"
    /\ N > 0
    /\ rets = <<"Ok", "Err">>
    /\ last.s # <<>>
    /\ last.ret = "Err"
    /\ used = N
    /\ as_bytes = SliceTo(PassBytes, N)

\* C17 (overflow is not sticky): a format() pass that follows a pass that
\* returned Err on the same buffer and whose fragments total at most N
\* bytes returns Ok, and as_bytes() is exactly its output.
C17_OverflowNotSticky ==
    (driver = "format" /\ prevErr /\ pc # "writing" /\ Len(PassBytes) <= N) =>
        /\ pc = "idle"
        /\ result = "Ok"
        /\ NoOverflow
        /\ used = Len(PassBytes)
        /\ SubSeq(buffer, 1, used) = PassBytes

\* a pass of two non-empty fragments returned Ok right after a pass that
\* had overflowed
C17_Witness ==
    /\ driver = "format"
    /\ prevErr
    /\ pc = "idle"
    /\ result = "Ok"
    /\ Len(frags) = 2
    /\ frags[1] # <<>>
    /\ frags[2] # <<>>
    /\ as_bytes = PassBytes

====
